---- MODULE Spec2Model ----
(***************************************************************************)
(* A model of sigopt_tools/python_lint.py: the rule registry, the twelve   *)
(* lint rules (check_node), the walker get_problems, the suppression scan  *)
(* and sort of check_file, and the driver main.                            *)
(*                                                                         *)
(* Representation.                                                         *)
(*  - A Python string that the code takes apart (identifiers, module       *)
(*    paths, comment text) is a sequence of atoms, each atom a piece of    *)
(*    the string that the code never splits ("Test", "Class", ".", ...).   *)
(*    startswith / find / split / strip work on these sequences.           *)
(*  - An AST node is a record; its kids are its child nodes in the order   *)
(*    of ast.iter_child_nodes.  Expression-context and operator objects    *)
(*    (Load, Store, Add, LtE, ...) are kept as the field ops, not as kids: *)
(*    they carry no lineno and no rule looks at them as nodes.             *)
(*  - A node's identity is its path from the root (child indices).         *)
(*  - A message is a sequence of strings (the pieces of the f-string);     *)
(*    None is the empty sequence (both are falsy for 'if problem :=').     *)
(*    A backquote of a message is written as a single quote.               *)
(***************************************************************************)
EXTENDS Integers, Sequences, FiniteSets, TLC

VARIABLES
  pc,          \* position in main / check_file / get_problems
  mode,        \* "main": through main();  "direct": check_file called directly;
               \* "rule": get_problems(tree, [rule], {}) as RuleTestBase.check does
  argv,        \* [include, ignore, files]: the parsed command line of main
  enabled,     \* enabled_rules
  fileIdx,     \* index in argv.files of the file being checked
  filesRead,   \* the files opened and read so far (history)
  source,      \* the file being checked: [name, tokens, tree]
  rules,       \* prepare_rules' result: rule names, sorted
  disables,    \* the suppression map: rule name -> line
  tkIdx,       \* next token of the scan
  todo,        \* ast.walk's deque: paths of the nodes still to visit
  parent,      \* the parent links set so far: path -> parent path (NoneP for None)
  found,       \* what get_problems has yielded so far, in order
  applied,     \* the (node, rule) pairs check_node was called on (history)
  problems,    \* sorted(get_problems(...))
  printed,     \* the lines printed by main / yielded by check_file
  outIdx,      \* how many of problems check_file has yielded
  flag,        \* main's 'problems' boolean
  exc,         \* the exception that ended the run, or "None"
  exitCode     \* sys.exit's argument, -1 while running

vars == <<pc, mode, argv, enabled, fileIdx, filesRead, source, rules, disables,
          tkIdx, todo, parent, found, applied, problems, outIdx, printed, flag, exc,
          exitCode>>

-----------------------------------------------------------------------------
(* Sequences *)

Range(s) == {s[i] : i \in DOMAIN s}

\* str.startswith
StartsWith(s, p) == Len(p) <= Len(s) /\ SubSeq(s, 1, Len(p)) = p

RECURSIVE Concat(_)
Concat(ss) == IF ss = <<>> THEN <<>> ELSE Head(ss) \o Concat(Tail(ss))

-----------------------------------------------------------------------------
(* AST nodes *)

NoneP == <<0>>

Node(kind, line, col) ==
  [kind |-> kind, line |-> line, col |-> col, id |-> <<>>, asname |-> <<>>,
   ops |-> <<>>, kids |-> <<>>, a |-> 0, b |-> 0,
   vararg |-> FALSE, kwarg |-> FALSE, nkwonly |-> 0, nposonly |-> 0,
   hasmodule |-> FALSE]

\* Nodes without a lineno attribute (hasattr(node, "lineno") is False): line 0.
HasLineno(n) == n.line > 0

Module(body) == [Node("Module", 0, 0) EXCEPT !.kids = body]
Expr(l, c, value) == [Node("Expr", l, c) EXCEPT !.kids = <<value>>]
Name(l, c, id) == [Node("Name", l, c) EXCEPT !.id = id]
Attribute(l, c, value, attr) == [Node("Attribute", l, c) EXCEPT !.kids = <<value>>, !.id = attr]
Call(l, c, func, args, keywords) ==
  [Node("Call", l, c) EXCEPT !.kids = <<func>> \o args \o keywords,
                             !.a = Len(args), !.b = Len(keywords)]
Keyword(l, c, value) == [Node("keyword", l, c) EXCEPT !.kids = <<value>>]
Str(l, c) == [Node("Constant", l, c) EXCEPT !.id = <<"str">>]
Num(l, c) == [Node("Constant", l, c) EXCEPT !.id = <<"int">>]
JoinedStr(l, c) == Node("JoinedStr", l, c)
BinOp(l, c, left, op, right) == [Node("BinOp", l, c) EXCEPT !.kids = <<left, right>>, !.ops = <<op>>]
Compare(l, c, left, ops, comparators) ==
  [Node("Compare", l, c) EXCEPT !.kids = <<left>> \o comparators, !.ops = ops]
Tuple(l, c, elts) == [Node("Tuple", l, c) EXCEPT !.kids = elts]
Subscript(l, c, value, slice) == [Node("Subscript", l, c) EXCEPT !.kids = <<value, slice>>]
Assign(l, c, target, value) == [Node("Assign", l, c) EXCEPT !.kids = <<target, value>>, !.a = 1]
AugAssign(l, c, target, value) == [Node("AugAssign", l, c) EXCEPT !.kids = <<target, value>>]
Return(l, c, value) == [Node("Return", l, c) EXCEPT !.kids = value]     \* value: <<>> or <<v>>
Yield(l, c, value) == [Node("Yield", l, c) EXCEPT !.kids = value]       \* value: <<>> or <<v>>
YieldFrom(l, c, value) == [Node("YieldFrom", l, c) EXCEPT !.kids = <<value>>]
If(l, c, test, body) == [Node("If", l, c) EXCEPT !.kids = <<test>> \o body]
Pass(l, c) == Node("Pass", l, c)
Comprehension(target, iter) == [Node("comprehension", 0, 0) EXCEPT !.kids = <<target, iter>>]
Comp(kind, l, c, elt, gen) == [Node(kind, l, c) EXCEPT !.kids = <<elt, gen>>]
Arg(l, c, id) == [Node("arg", l, c) EXCEPT !.id = id]
\* arguments(posonlyargs, args, vararg, kwonlyargs, kwarg); kids in field order
Arguments(posonly, args, vararg, kwonly, kwarg) ==
  [Node("arguments", 0, 0) EXCEPT
     !.kids = posonly \o args \o vararg \o kwonly \o kwarg,
     !.nposonly = Len(posonly), !.a = Len(args), !.vararg = (vararg # <<>>),
     !.nkwonly = Len(kwonly), !.kwarg = (kwarg # <<>>)]
\* FunctionDef / AsyncFunctionDef fields: name, args, body, decorator_list
FunctionDef(kind, l, c, name, args, body, decorators) ==
  [Node(kind, l, c) EXCEPT !.id = name, !.kids = <<args>> \o body \o decorators,
                           !.a = Len(body), !.b = Len(decorators)]
Lambda(l, c, args, body) == [Node("Lambda", l, c) EXCEPT !.kids = <<args, body>>]
\* ClassDef fields: name, bases, keywords, body, decorator_list
ClassDef(l, c, name, bases, body) ==
  [Node("ClassDef", l, c) EXCEPT !.id = name, !.kids = bases \o body, !.a = Len(bases)]
Alias(l, c, name, asname) == [Node("alias", l, c) EXCEPT !.id = name, !.asname = asname]
Import(l, c, names) == [Node("Import", l, c) EXCEPT !.kids = names]
\* module: <<>> with hasmodule FALSE is module=None (from . import x)
ImportFrom(l, c, module, hasmodule, names) ==
  [Node("ImportFrom", l, c) EXCEPT !.kids = names, !.id = module, !.hasmodule = hasmodule]

(* Field access *)
Func(n) == n.kids[1]                                   \* Call.func
CallArgs(n) == SubSeq(n.kids, 2, 1 + n.a)              \* Call.args
CallKeywords(n) == SubSeq(n.kids, 2 + n.a, Len(n.kids))\* Call.keywords
Value(n) == n.kids[Len(n.kids)]                        \* .value of Expr, Attribute, Assign, ...
HasValue(n) == n.kids # <<>>                           \* Return.value / Yield.value is not None
Left(n) == n.kids[1]
Right(n) == n.kids[2]
FunArgs(n) == n.kids[1]                                \* FunctionDef.args
DecoratorList(n) == SubSeq(n.kids, 2 + n.a, 1 + n.a + n.b)
Bases(n) == SubSeq(n.kids, 1, n.a)

IsFunction(n) == n.kind \in {"FunctionDef", "AsyncFunctionDef"}

RECURSIVE NodeAt(_, _)
NodeAt(t, p) == IF p = <<>> THEN t ELSE NodeAt(t.kids[Head(p)], Tail(p))

\* ast.iter_child_nodes, as paths
ChildPaths(t, p) == [i \in 1..Len(NodeAt(t, p).kids) |-> Append(p, i)]

\* ast.walk(node): breadth first, as the sequence of nodes
RECURSIVE WalkFrom(_)
WalkFrom(queue) ==
  IF queue = <<>> THEN <<>>
  ELSE <<Head(queue)>> \o WalkFrom(Tail(queue) \o Head(queue).kids)

AstWalk(n) == WalkFrom(<<n>>)

-----------------------------------------------------------------------------
(* Results of a call: the exception raised ("None" when it returned) and the value *)

Ret(v) == [exc |-> "None", val |-> v]
Raise(e) == [exc |-> e, val |-> <<>>]
None == <<>>

Tree == source.tree
At(p) == NodeAt(Tree, p)

\* find_parent_function(node): the node itself when it is a function definition,
\* else up the parent links.  Reading a parent link that was never set is an
\* AttributeError.
RECURSIVE find_parent_function(_)
find_parent_function(p) ==
  IF IsFunction(At(p)) THEN Ret(p)
  ELSE IF p \notin DOMAIN parent THEN Raise("AttributeError")
  ELSE IF parent[p] # NoneP THEN find_parent_function(parent[p])
  ELSE Ret(NoneP)

-----------------------------------------------------------------------------
(* The rules *)

\* ProhibitedMethodsRule.is_prohibited_method_call
is_prohibited_method_call(node, prohibited_methods) ==
  /\ node.kind = "Call"
  /\ Func(node).kind = "Attribute"
  /\ Func(node).id \in prohibited_methods

AvoidDatetimeNow_check_node(p) ==
  LET node == At(p) IN
  IF /\ is_prohibited_method_call(node, {<<"now">>, <<"utcnow">>})
     /\ Value(Func(node)).kind = "Attribute"
     /\ Value(Func(node)).id \in {<<"dt">>, <<"datetime">>}
  THEN Ret(<<"Prefer 'current_datetime' to 'datetime.">> \o Func(node).id
           \o <<"' to ensure consistent use of UTC timezone">>)
  ELSE Ret(None)

\* SafeRecursiveRule.is_recursive_call; parent_function is a path or NoneP
is_recursive_call(node, parent_function) ==
  IF node.kind = "Call" /\ Func(node).kind = "Name"
  THEN parent_function # NoneP /\ At(parent_function).id = Func(node).id
  ELSE FALSE

SafeRecursive_check_node(p) ==
  LET node == At(p) IN
  IF node.kind # "Call" THEN Ret(None)
  ELSE LET pf == find_parent_function(p) IN
    IF pf.exc # "None" THEN Raise(pf.exc)
    ELSE IF ~is_recursive_call(node, pf.val) THEN Ret(None)
    ELSE LET defined_args == FunArgs(At(pf.val)) IN
      IF defined_args.vararg THEN Raise("AssertionError")
      ELSE IF defined_args.kwarg THEN Raise("AssertionError")
      ELSE IF defined_args.nkwonly # 0 THEN Raise("AssertionError")
      ELSE IF defined_args.a # node.a + node.b
      THEN Ret(<<"Recursive call appears to be missing arguments. Specify all arguments for recursive calls.">>)
      ELSE Ret(None)

\* SafeIteratorRule.is_iterator; vals is <<>> for None, <<node>> otherwise
is_iterator(vals) ==
  /\ vals # <<>>
  /\ vals[1].kind = "Call"
  /\ Func(vals[1]).kind = "Name"
  /\ Func(vals[1]).id \in {<<"range">>, <<"zip">>, <<"map">>, <<"filter">>}

SafeIterator_check_node(p) ==
  LET node == At(p) IN
  IF node.kind = "Return" THEN
    IF is_iterator(node.kids)
    THEN Ret(<<"returning '">> \o Func(Value(node)).id
             \o <<"' is not allowed, suggest using 'yield from' syntax or returning 'zigopt.common.lists.safe_iterator'">>)
    ELSE Ret(None)
  ELSE IF node.kind = "BinOp" THEN
    IF node.ops = <<"Add">> /\ (is_iterator(<<Left(node)>>) \/ is_iterator(<<Right(node)>>))
    THEN Ret(<<"adding iterators is not allowed">>)
    ELSE Ret(None)
  ELSE Ret(None)

ProtobufMethods_check_node(p) ==
  LET node == At(p) IN
  IF is_prohibited_method_call(node, {<<"MergeFrom">>, <<"CopyFrom">>})
  THEN Ret(<<"Do not call '">> \o Func(node).id \o <<"' on protobufs - prefer the safer '">>
           \o Func(node).id \o <<"' in zigopt.protobuf.lib'">>)
  ELSE Ret(None)

\* a get_decorator_name that unwraps one call level and no more
get_decorator_name_oneLevel(node) ==
  IF node.kind \in {"Attribute", "Name"} THEN Ret(node.id)
  ELSE IF node.kind # "Call" THEN Raise("AssertionError")
  ELSE IF Func(node).kind \in {"Attribute", "Name"} THEN Ret(Func(node).id)
  ELSE Ret(<<>>)

\* SafeYieldRule.get_decorator_name
RECURSIVE get_decorator_name(_)
get_decorator_name(node) ==
  IF node.kind = "Attribute" THEN Ret(node.id)
  ELSE IF node.kind = "Name" THEN Ret(node.id)
  ELSE IF node.kind # "Call" THEN Raise("AssertionError")
  ELSE get_decorator_name(Func(node))

\* SafeYieldRule.has_return_with_value; ast.walk(None) is an AttributeError
has_return_with_value(fn) ==
  IF fn = NoneP THEN Raise("AttributeError")
  ELSE LET w == AstWalk(At(fn)) IN
       Ret(\E i \in DOMAIN w : w[i].kind = "Return" /\ HasValue(w[i]))

SafeDecorators ==
  {<<"generator_to_list">>, <<"generator_to_dict">>, <<"generator_to_safe_iterator">>,
   <<"unsafe_generator">>, <<"contextmanager">>, <<"fixture">>, <<"hookimpl">>}

\* the lambda of missing_decorator
protects_iterator(decorator) ==
  LET n == get_decorator_name(decorator) IN
  IF n.exc # "None" THEN n ELSE Ret(n.val \in SafeDecorators)

\* any(True for child in decorator_list if protects_iterator(child)): in order,
\* stopping at the first that protects; a decorator that raises ends it.
RECURSIVE AnyProtects(_)
AnyProtects(ds) ==
  IF ds = <<>> THEN Ret(FALSE)
  ELSE LET r == protects_iterator(Head(ds)) IN
       IF r.exc # "None" THEN r
       ELSE IF r.val THEN Ret(TRUE)
       ELSE AnyProtects(Tail(ds))

\* SafeYieldRule.missing_decorator; None.decorator_list is an AttributeError
missing_decorator(fn) ==
  IF fn = NoneP THEN Raise("AttributeError")
  ELSE LET r == AnyProtects(DecoratorList(At(fn))) IN
       IF r.exc # "None" THEN r ELSE Ret(~r.val)

\* the two tests of SafeYieldRule.check_node in the other order
SafeYield_check_node_decoratorFirst(p) ==
  LET node == At(p) IN
  IF node.kind \notin {"Yield", "YieldFrom"} THEN Ret(None)
  ELSE LET function_node == find_parent_function(p) IN
    IF function_node.exc # "None" THEN Raise(function_node.exc)
    ELSE LET md == missing_decorator(function_node.val) IN
      IF md.exc # "None" THEN Raise(md.exc)
      ELSE IF md.val
      THEN Ret(<<"Functions with 'yield' should be decorated with a 'generator_to_X' function">>)
      ELSE LET hr == has_return_with_value(function_node.val) IN
        IF hr.exc # "None" THEN Raise(hr.exc)
        ELSE IF hr.val THEN Ret(<<"Do not mix 'return value' and 'yield' in the same function">>)
        ELSE Ret(None)

SafeYield_check_node(p) ==
  LET node == At(p) IN
  IF node.kind \notin {"Yield", "YieldFrom"} THEN Ret(None)
  ELSE LET function_node == find_parent_function(p) IN
    IF function_node.exc # "None" THEN Raise(function_node.exc)
    ELSE LET hr == has_return_with_value(function_node.val) IN
      IF hr.exc # "None" THEN Raise(hr.exc)
      ELSE IF hr.val THEN Ret(<<"Do not mix 'return value' and 'yield' in the same function">>)
      ELSE LET md == missing_decorator(function_node.val) IN
        IF md.exc # "None" THEN Raise(md.exc)
        ELSE IF md.val
        THEN Ret(<<"Functions with 'yield' should be decorated with a 'generator_to_X' function">>)
        ELSE Ret(None)

TrailingComma_check_node(p) ==
  LET node == At(p) IN
  IF /\ node.kind \in {"Assign", "AugAssign", "Expr", "Return", "Yield"}
     /\ HasValue(node)
     /\ Value(node).kind = "Tuple"
     /\ Len(Value(node).kids) = 1
  THEN Ret(<<"Prefer 'tuple' for single-element tuples">>)
  ELSE Ret(None)

\* isinstance(x, (ast.Str, ast.JoinedStr, ast.FormattedValue))
IsStrLike(n) ==
  \/ n.kind = "Constant" /\ n.id = <<"str">>
  \/ n.kind \in {"JoinedStr", "FormattedValue"}

AddingStrings_check_node(p) ==
  LET node == At(p) IN
  IF /\ node.kind = "BinOp"
     /\ IsStrLike(Left(node))
     /\ IsStrLike(Right(node))
  THEN Ret(<<"use parenthesis instead of addition for long strings">>)
  ELSE Ret(None)

GeneratorExpression_check_node(p) ==
  LET node == At(p) IN
  IF /\ node.kind = "Call"
     /\ Func(node).kind = "Name"
     /\ Func(node).id \in {<<"map">>, <<"filter">>}
  THEN Ret(<<"use generator expression over the ">> \o Func(node).id \o <<" function">>)
  ELSE Ret(None)

\* the loop over node.bases: the first base that is a Name starting with the prefix
RECURSIVE FirstTestBase(_)
FirstTestBase(bases) ==
  IF bases = <<>> THEN None
  ELSE IF Head(bases).kind = "Name" /\ StartsWith(Head(bases).id, <<"Test">>)
  THEN <<"Inheriting the test suite ">> \o Head(bases).id
       \o <<" may cause it to get run twice. Classes beginning with 'Test' are interpreted by pytest as test suites.">>
  ELSE FirstTestBase(Tail(bases))

ForbidTestSuiteInheritance_check_node(p) ==
  LET node == At(p) IN
  IF node.kind = "ClassDef" /\ StartsWith(node.id, <<"Test">>)
  THEN Ret(FirstTestBase(Bases(node)))
  ELSE Ret(None)

\* the loops with the imported name tested where the code tests the bound name
RECURSIVE FirstTestImport_importedName(_)
FirstTestImport_importedName(names) ==
  IF names = <<>> THEN None
  ELSE LET name == Head(names).id
       IN IF StartsWith(name, <<"Test">>) \/ StartsWith(name, <<"test_">>)
          THEN <<"Importing the test suite ">> \o name
          ELSE FirstTestImport_importedName(Tail(names))

\* the loops over node.names and the two prefixes
RECURSIVE FirstTestImport(_)
FirstTestImport(names) ==
  IF names = <<>> THEN None
  ELSE LET alias == Head(names)
           name == IF alias.asname # <<>> THEN alias.asname ELSE alias.id
       IN IF StartsWith(name, <<"Test">>)
          THEN <<"Importing the test suite ">> \o name
               \o <<" may cause it to get run twice. Imported objects beginning with 'Test' are interpreted by pytest as test suites.">>
          ELSE IF StartsWith(name, <<"test_">>)
          THEN <<"Importing the test suite ">> \o name
               \o <<" may cause it to get run twice. Imported objects beginning with 'test_' are interpreted by pytest as test suites.">>
          ELSE FirstTestImport(Tail(names))

ForbidImportTestSuite_check_node(p) ==
  LET node == At(p) IN
  IF node.kind \in {"Import", "ImportFrom"} THEN Ret(FirstTestImport(node.kids))
  ELSE Ret(None)

\* SetComparisonRule.is_comprehended_set
is_comprehended_set(node) ==
  \/ node.kind = "SetComp"
  \/ /\ node.kind = "Call"
     /\ Func(node).kind = "Name"
     /\ Func(node).id = <<"set">>
     /\ \E i \in 1..node.a : CallArgs(node)[i].kind \in {"GeneratorExp", "ListComp"}

InvalidOps_onlyLtE == {"LtE"}
InvalidOps == {"LtE", "GtE"}

\* the zip loop of SetComparisonRule.check_node from position i: returns at the
\* first position that matches
RECURSIVE SetComparisonLoop(_, _)
SetComparisonLoop(node, i) ==
  IF i > Len(node.ops) \/ i + 1 > Len(node.kids) THEN None
  ELSE IF /\ node.ops[i] \in InvalidOps
          /\ (is_comprehended_set(node.kids[i]) \/ is_comprehended_set(node.kids[i + 1]))
  THEN <<"use any() and all() over comprehended set comparisons">>
  ELSE SetComparisonLoop(node, i + 1)

SetComparison_check_node(p) ==
  LET node == At(p) IN
  IF node.kind = "Compare" /\ Len(node.kids) > 1
  THEN Ret(SetComparisonLoop(node, 1))
  ELSE Ret(None)

LibsigoptCompute == <<"libsigopt", ".", "compute">>

NoImportLibsigoptCompute_check_node(p) ==
  LET node == At(p)
      error_msg == <<"Should not import from libsigopt.compute, consider moving the class/method to libsigopt.aux or libsigopt.views">>
  IN
  IF node.kind = "Import" /\ \E i \in DOMAIN node.kids : node.kids[i].id = LibsigoptCompute
  THEN Ret(error_msg)
  ELSE IF node.kind = "ImportFrom" THEN
    IF ~node.hasmodule THEN Raise("AttributeError")
    ELSE IF StartsWith(node.id, LibsigoptCompute) THEN Ret(error_msg)
    ELSE Ret(None)
  ELSE Ret(None)

-----------------------------------------------------------------------------
(* The registry *)

REGISTERED_RULES ==
  {"AddingStringsRule", "AvoidDatetimeNowRule", "ForbidImportTestSuiteRule",
   "ForbidTestSuiteInheritanceRule", "GeneratorExpressionRule",
   "NoImportLibsigoptComputeRule", "ProtobufMethodsRule", "SafeIteratorRule",
   "SafeRecursiveRule", "SafeYieldRule", "SetComparisonRule", "TrailingCommaRule"}

\* rule.check_node(node) of the rule registered under the name
check_node(rule, p) ==
  CASE rule = "AddingStringsRule" -> AddingStrings_check_node(p)
    [] rule = "AvoidDatetimeNowRule" -> AvoidDatetimeNow_check_node(p)
    [] rule = "ForbidImportTestSuiteRule" -> ForbidImportTestSuite_check_node(p)
    [] rule = "ForbidTestSuiteInheritanceRule" -> ForbidTestSuiteInheritance_check_node(p)
    [] rule = "GeneratorExpressionRule" -> GeneratorExpression_check_node(p)
    [] rule = "NoImportLibsigoptComputeRule" -> NoImportLibsigoptCompute_check_node(p)
    [] rule = "ProtobufMethodsRule" -> ProtobufMethods_check_node(p)
    [] rule = "SafeIteratorRule" -> SafeIterator_check_node(p)
    [] rule = "SafeRecursiveRule" -> SafeRecursive_check_node(p)
    [] rule = "SafeYieldRule" -> SafeYield_check_node(p)
    [] rule = "SetComparisonRule" -> SetComparison_check_node(p)
    [] rule = "TrailingCommaRule" -> TrailingComma_check_node(p)

RuleOrder ==
  <<"AddingStringsRule", "AvoidDatetimeNowRule", "ForbidImportTestSuiteRule",
    "ForbidTestSuiteInheritanceRule", "GeneratorExpressionRule",
    "NoImportLibsigoptComputeRule", "ProtobufMethodsRule", "SafeIteratorRule",
    "SafeRecursiveRule", "SafeYieldRule", "SetComparisonRule", "TrailingCommaRule">>

\* sorted(enabled_rules), for names of the registry: their alphabetical order
SortedNames(names) == SelectSeq(RuleOrder, LAMBDA r : r \in names)

\* a prepare_rules that passes over the names it does not know
prepare_rules_skipUnknown(enabled_rules) ==
  Ret(SortedNames(enabled_rules \cap REGISTERED_RULES))

\* prepare_rules: REGISTERED_RULES[rule_name] is a KeyError for an unknown name
prepare_rules(enabled_rules) ==
  IF enabled_rules \subseteq REGISTERED_RULES THEN Ret(SortedNames(enabled_rules))
  ELSE Raise("KeyError")

-----------------------------------------------------------------------------
(* Comment text and the suppression scan of check_file *)

DisableMarker == "sigoptlint: disable="
EnableMarker == "sigoptlint: enable="

\* marker in tk.string
Contains(s, m) == \E i \in DOMAIN s : s[i] = m

\* tk.string.find(marker), for a string that contains it
Find(s, m) == CHOOSE i \in DOMAIN s : s[i] = m /\ \A j \in 1..(i - 1) : s[j] # m

\* str.split(","): the pieces between commas, at least one
RECURSIVE Split(_)
Split(s) ==
  IF ~Contains(s, ",") THEN <<s>>
  ELSE LET i == Find(s, ",") IN <<SubSeq(s, 1, i - 1)>> \o Split(SubSeq(s, i + 1, Len(s)))

\* str.strip()
RECURSIVE Strip(_)
Strip(s) ==
  IF s = <<>> THEN s
  ELSE IF Head(s) = " " THEN Strip(Tail(s))
  ELSE IF s[Len(s)] = " " THEN Strip(SubSeq(s, 1, Len(s) - 1))
  ELSE s

\* rule_names of a comment that holds the disable marker
RuleNamesOf(string) ==
  LET comment_suffix == SubSeq(string, Find(string, DisableMarker) + 1, Len(string))
      pieces == Split(comment_suffix)
  IN [i \in DOMAIN pieces |-> Strip(pieces[i])]

\* disables[rule_name] = lineno: the last directive wins
RECURSIVE RecordDisables_lastWins(_, _, _)
RecordDisables_lastWins(d, rule_names, lineno) ==
  IF rule_names = <<>> THEN d
  ELSE RecordDisables_lastWins(
         [k \in DOMAIN d \cup {Head(rule_names)} |->
            IF k = Head(rule_names) THEN lineno ELSE d[k]],
         Tail(rule_names), lineno)

\* disables[rule_name] = disables.get(rule_name, lineno), for each name in turn
RECURSIVE RecordDisables(_, _, _)
RecordDisables(d, rule_names, lineno) ==
  IF rule_names = <<>> THEN d
  ELSE LET rule_name == Head(rule_names)
           d2 == IF rule_name \in DOMAIN d THEN d
                 ELSE [k \in DOMAIN d \cup {rule_name} |->
                         IF k = rule_name THEN lineno ELSE d[k]]
       IN RecordDisables(d2, Tail(rule_names), lineno)

\* the name a rule class has as a key of the suppression map
Key(rule) == <<rule>>

-----------------------------------------------------------------------------
(* get_problems and the sort of check_file *)

\* a suppression that starts on the line after the comment
Suppressed_strict(d, rule, node) ==
  HasLineno(node) /\ <<rule>> \in DOMAIN d /\ d[<<rule>>] < node.line

\* the suppression test of get_problems
Suppressed(d, rule, node) ==
  HasLineno(node) /\ Key(rule) \in DOMAIN d /\ d[Key(rule)] <= node.line

\* the loop over the rules for one node, from rule i: what it yields, the rules
\* it called, and the exception that ended it
RECURSIVE ApplyRules(_, _, _)
ApplyRules(p, rs, d) ==
  IF rs = <<>> THEN [exc |-> "None", yielded |-> <<>>, called |-> <<>>]
  ELSE IF Suppressed(d, Head(rs), At(p)) THEN ApplyRules(p, Tail(rs), d)
  ELSE LET problem == check_node(Head(rs), p)
           this == <<[node |-> p, rule |-> Head(rs)]>>
       IN IF problem.exc # "None"
          THEN [exc |-> problem.exc, yielded |-> <<>>, called |-> this]
          ELSE LET rest == ApplyRules(p, Tail(rs), d) IN
               [exc |-> rest.exc,
                yielded |-> (IF problem.val # None
                             THEN <<[msg |-> problem.val, node |-> p, rule |-> Head(rs)]>>
                             ELSE <<>>) \o rest.yielded,
                called |-> this \o rest.called]

\* a sort that compares the line alone
KeyLess_lineOnly(k1, k2) == k1[1] < k2[1]

\* the sort key (p[1].lineno, p[1].col_offset) and the order of tuples
SortKey(x) == <<At(x.node).line, At(x.node).col>>
KeyLess(k1, k2) == k1[1] < k2[1] \/ (k1[1] = k2[1] /\ k1[2] < k2[2])

\* x put into the sorted s behind every element whose key is not greater
RECURSIVE InsertSorted(_, _)
InsertSorted(s, x) ==
  IF s = <<>> THEN <<x>>
  ELSE IF KeyLess(SortKey(x), SortKey(Head(s))) THEN <<x>> \o s
  ELSE <<Head(s)>> \o InsertSorted(Tail(s), x)

\* sorted(..., key=...): stable
RECURSIVE Sorted(_)
Sorted(s) ==
  IF s = <<>> THEN <<>>
  ELSE InsertSorted(Sorted(SubSeq(s, 1, Len(s) - 1)), s[Len(s)])

-----------------------------------------------------------------------------
(* Input files.  A file is its name, its token stream and the tree ast.parse   *)
(* gives.  Of the tokens that are not comments the scan skips, one per         *)
(* statement and every string literal are kept.                                *)

MaxLines == 2
MaxFiles == 2

Tok(type, string, line) == [type |-> type, string |-> string, line |-> line]

StmtKinds == {"mix", "tup", "str"}

\* the statement of a kind, written on line l
Stmt(kind, l) ==
  CASE kind = "mix" ->    \* g(h(dt.datetime.now()), 'a' + 'b')
         Expr(l, 0, Call(l, 0, Name(l, 0, <<"g">>),
           <<Call(l, 2, Name(l, 2, <<"h">>),
               <<Call(l, 4,
                   Attribute(l, 4, Attribute(l, 4, Name(l, 4, <<"dt">>), <<"datetime">>), <<"now">>),
                   <<>>, <<>>)>>, <<>>),
             BinOp(l, 24, Str(l, 24), "Add", Str(l, 30))>>, <<>>))
    [] kind = "tup" ->    \* 'a' + 'b',
         Expr(l, 0, Tuple(l, 0, <<BinOp(l, 0, Str(l, 0), "Add", Str(l, 6))>>))
    [] kind = "str" ->    \* x = "sigoptlint: enable="
         Assign(l, 0, Name(l, 0, <<"x">>), Str(l, 4))

StmtTokens(kind, l) ==
  CASE kind = "mix" -> <<Tok("NAME", <<"g">>, l), Tok("STRING", <<"'a'">>, l), Tok("STRING", <<"'b'">>, l)>>
    [] kind = "tup" -> <<Tok("STRING", <<"'a'">>, l), Tok("STRING", <<"'b'">>, l)>>
    [] kind = "str" -> <<Tok("NAME", <<"x">>, l), Tok("STRING", <<"\"", EnableMarker, "\"">>, l)>>

CmtKinds == {"none", "dTwo", "en", "dMix"}

\* the text of the comment that ends a line
CmtText(kind) ==
  CASE kind = "none" -> <<>>
    [] kind = "dTwo" -> <<"# ", DisableMarker, "AddingStringsRule", ",", " ", "AvoidDatetimeNowRule">>
    [] kind = "en" -> <<"# ", EnableMarker, "AddingStringsRule">>
    [] kind = "dMix" -> <<"# note ", DisableMarker, " ", "TrailingCommaRule", " ", ",",
                          "SafeIteratorRule", " ", "# ", DisableMarker, "AddingStringsRule">>

CmtTokens(kind, l) ==
  IF kind = "none" THEN <<>> ELSE <<Tok("COMMENT", CmtText(kind), l)>>

FileOf(name, stmts, cmts) ==
  [name |-> name,
   tokens |-> Concat([i \in DOMAIN stmts |-> StmtTokens(stmts[i], i) \o CmtTokens(cmts[i], i)]),
   tree |-> Module([i \in DOMAIN stmts |-> Stmt(stmts[i], i)])]

\* the files check_file is called on directly
DirectFiles ==
  {FileOf("f.py", st, cm) : <<st, cm>> \in
     UNION {[1..n -> StmtKinds] \X [1..n -> CmtKinds] : n \in 1..MaxLines}}

\* the sets of rule names check_file is called with directly
EnabledChoices ==
  {REGISTERED_RULES,
   {"AddingStringsRule", "AvoidDatetimeNowRule", "TrailingCommaRule"},
   {"AvoidDatetimeNowRule", "NoSuchRule"}}

\* the files on main's command line, and the values of its options ("" is <<>>,
\* the default of an option left out)
FileNames == <<"a.py", "b.py", "c.py">>
MainContents ==
  {<<<<"tup", "mix">>, <<"none", "none">>>>,
   <<<<"str">>, <<"none">>>>,
   <<<<"tup">>, <<"en">>>>,
   <<<<"mix", "tup">>, <<"dTwo", "none">>>>}
MainFileLists ==
  UNION {{[i \in 1..n |-> FileOf(FileNames[i], c[i][1], c[i][2])] : c \in [1..n -> MainContents]}
           : n \in 1..MaxFiles}
IncludeChoices == {<<>>, <<"AvoidDatetimeNowRule">>, <<"NoSuchRule">>}
IgnoreChoices == {<<>>, <<"TrailingCommaRule">>, <<"NoSuchRule">>}

NoFile == [name |-> "", tokens |-> <<>>, tree |-> Module(<<>>)]
EmptyMap == [k \in {} |-> 0]

-----------------------------------------------------------------------------
(* main *)

DefaultRules ==
  {"AddingStringsRule", "ForbidImportTestSuiteRule", "ForbidTestSuiteInheritanceRule",
   "SafeRecursiveRule", "SetComparisonRule", "TrailingCommaRule"}

\* args.include.split(","): the names between the commas; "" gives [""]
SplitOption(names) == IF names = <<>> THEN <<"">> ELSE names

\* enabled_rules as main computes it
EnabledRules(include, ignore) ==
  (DefaultRules \cup Range(SplitOption(include))) \ Range(SplitOption(ignore))

Init ==
  /\ pc = "init"
  /\ mode = "none"
  /\ argv = [include |-> <<>>, ignore |-> <<>>, files |-> <<>>]
  /\ enabled = {}
  /\ fileIdx = 0
  /\ filesRead = <<>>
  /\ source = NoFile
  /\ rules = <<>>
  /\ disables = EmptyMap
  /\ tkIdx = 0
  /\ todo = <<>>
  /\ parent = EmptyMap
  /\ found = <<>>
  /\ applied = <<>>
  /\ problems = <<>>
  /\ outIdx = 0
  /\ printed = <<>>
  /\ flag = FALSE
  /\ exc = "None"
  /\ exitCode = -1

fileVars == <<source, rules, disables, tkIdx, todo, parent, found, applied, problems, outIdx>>

\* main, lines 349-362: parse_args, the enabled set, the assertion
Main ==
  /\ pc = "init"
  /\ \E inc \in IncludeChoices, ign \in IgnoreChoices, fs \in MainFileLists :
       /\ argv' = [include |-> inc, ignore |-> ign, files |-> fs]
       /\ enabled' = EnabledRules(inc, ign)
       /\ IF EnabledRules(inc, ign) \subseteq REGISTERED_RULES
          THEN pc' = "open" /\ exc' = exc
          ELSE pc' = "raised" /\ exc' = "AssertionError"
  /\ mode' = "main"
  /\ fileIdx' = 1
  /\ UNCHANGED <<filesRead, fileVars, printed, flag, exitCode>>

\* check_file(source_name, enabled_rules) called by another program
Direct ==
  /\ pc = "init"
  /\ \E f \in DirectFiles, en \in EnabledChoices :
       /\ argv' = [include |-> <<>>, ignore |-> <<>>, files |-> <<f>>]
       /\ enabled' = en
  /\ mode' = "direct"
  /\ pc' = "open"
  /\ fileIdx' = 1
  /\ UNCHANGED <<filesRead, fileVars, printed, flag, exc, exitCode>>

\* check_file, lines 323-324: the file is opened and read
OpenFile ==
  /\ pc = "open"
  /\ source' = argv.files[fileIdx]
  /\ filesRead' = Append(filesRead, argv.files[fileIdx].name)
  /\ pc' = "prepare"
  /\ UNCHANGED <<mode, argv, enabled, fileIdx, rules, disables, tkIdx, todo, parent,
                 found, applied, problems, outIdx, printed, flag, exc, exitCode>>

\* check_file, lines 325-328: prepare_rules, the empty map, the token list
PrepareRules ==
  /\ pc = "prepare"
  /\ LET r == prepare_rules(enabled) IN
       IF r.exc # "None"
       THEN /\ pc' = "raised" /\ exc' = r.exc
            /\ UNCHANGED <<rules, disables, tkIdx>>
       ELSE /\ rules' = r.val
            /\ disables' = EmptyMap
            /\ tkIdx' = 1
            /\ pc' = "scan"
            /\ exc' = exc
  /\ UNCHANGED <<mode, argv, enabled, fileIdx, filesRead, source, todo, parent,
                 found, applied, problems, outIdx, printed, flag, exitCode>>

\* the enable marker looked for in every token
IsEnableComment_anyToken(tk) == Contains(tk.string, EnableMarker)

\* lines 332-333: the token is a comment that holds the enable marker
IsEnableComment(tk) == tk.type = "COMMENT" /\ Contains(tk.string, EnableMarker)

\* check_file, lines 329-340: one turn of the loop over the tokens
ScanToken ==
  /\ pc = "scan"
  /\ tkIdx <= Len(source.tokens)
  /\ LET tk == source.tokens[tkIdx] IN
       IF IsEnableComment(tk)
       THEN /\ pc' = "raised" /\ exc' = "NotImplementedError"
            /\ UNCHANGED <<disables, tkIdx>>
       ELSE /\ disables' = IF tk.type = "COMMENT" /\ Contains(tk.string, DisableMarker)
                           THEN RecordDisables(disables, RuleNamesOf(tk.string), tk.line)
                           ELSE disables
            /\ tkIdx' = tkIdx + 1
            /\ UNCHANGED <<pc, exc>>
  /\ UNCHANGED <<mode, argv, enabled, fileIdx, filesRead, source, rules, todo, parent,
                 found, applied, problems, outIdx, printed, flag, exitCode>>

\* check_file line 342 and get_problems line 310: the parse, tree.parent = None
Parse ==
  /\ pc = "scan"
  /\ tkIdx > Len(source.tokens)
  /\ todo' = <<<<>>>>
  /\ parent' = [k \in {<<>>} |-> NoneP]
  /\ found' = <<>>
  /\ applied' = <<>>
  /\ problems' = <<>>
  /\ outIdx' = 0
  /\ pc' = "walk"
  /\ UNCHANGED <<mode, argv, enabled, fileIdx, filesRead, source, rules, disables, tkIdx,
                 printed, flag, exc, exitCode>>

\* a walk that leaves out the loop setting the children's parent
WalkNode_noLinks ==
  /\ pc = "walk"
  /\ todo # <<>>
  /\ LET p == Head(todo)
         r == ApplyRules(p, rules, disables)
     IN /\ todo' = Tail(todo) \o ChildPaths(Tree, p)
        /\ found' = found \o r.yielded
        /\ applied' = applied \o r.called
        /\ IF r.exc # "None" THEN pc' = "raised" /\ exc' = r.exc
           ELSE UNCHANGED <<pc, exc>>
  /\ UNCHANGED <<mode, argv, enabled, fileIdx, filesRead, source, rules, disables, tkIdx,
                 parent, problems, outIdx, printed, flag, exitCode>>

\* get_problems, lines 311-319: one node of ast.walk
WalkNode ==
  /\ pc = "walk"
  /\ todo # <<>>
  /\ LET p == Head(todo)
         children == ChildPaths(Tree, p)
         r == ApplyRules(p, rules, disables)
     IN /\ todo' = Tail(todo) \o children
        /\ parent' = [k \in DOMAIN parent \cup Range(children) |->
                        IF k \in Range(children) THEN p ELSE parent[k]]
        /\ found' = found \o r.yielded
        /\ applied' = applied \o r.called
        /\ IF r.exc # "None" THEN pc' = "raised" /\ exc' = r.exc
           ELSE UNCHANGED <<pc, exc>>
  /\ UNCHANGED <<mode, argv, enabled, fileIdx, filesRead, source, rules, disables, tkIdx,
                 problems, outIdx, printed, flag, exitCode>>

\* check_file line 343: sorted(...); the key of a node without lineno is an
\* AttributeError
Sort ==
  /\ pc = "walk"
  /\ todo = <<>>
  /\ mode # "rule"
  /\ IF \A i \in DOMAIN found : HasLineno(At(found[i].node))
     THEN /\ problems' = Sorted(found)
          /\ outIdx' = 0
          /\ pc' = "emit"
          /\ exc' = exc
     ELSE /\ pc' = "raised" /\ exc' = "AttributeError"
          /\ UNCHANGED <<problems, outIdx>>
  /\ UNCHANGED <<mode, argv, enabled, fileIdx, filesRead, source, rules, disables, tkIdx,
                 todo, parent, found, applied, printed, flag, exitCode>>

\* the line check_file yields for a problem
Line(name, x) == <<name, At(x.node).line, At(x.node).col, x.msg>>

\* check_file lines 344-345 and main lines 364-366: one message yielded; main sets
\* its flag and prints it
Emit ==
  /\ pc = "emit"
  /\ outIdx < Len(problems)
  /\ outIdx' = outIdx + 1
  /\ printed' = Append(printed, Line(source.name, problems[outIdx + 1]))
  /\ flag' = IF mode = "main" THEN TRUE ELSE flag
  /\ UNCHANGED <<pc, mode, argv, enabled, fileIdx, filesRead, source, rules, disables, tkIdx,
                 todo, parent, found, applied, problems, exc, exitCode>>

\* a loop that clears main's flag for each file
NextFile_resetsFlag ==
  /\ pc = "emit"
  /\ outIdx = Len(problems)
  /\ mode = "main"
  /\ fileIdx < Len(argv.files)
  /\ fileIdx' = fileIdx + 1
  /\ pc' = "open"
  /\ flag' = FALSE
  /\ UNCHANGED <<mode, argv, enabled, filesRead, fileVars, printed, exc, exitCode>>

\* main line 363: the next file
NextFile ==
  /\ pc = "emit"
  /\ outIdx = Len(problems)
  /\ mode = "main"
  /\ fileIdx < Len(argv.files)
  /\ fileIdx' = fileIdx + 1
  /\ pc' = "open"
  /\ UNCHANGED <<mode, argv, enabled, filesRead, fileVars, printed, flag, exc, exitCode>>

\* main line 367: sys.exit(int(problems)); a direct caller's loop just ends
Exit ==
  /\ pc = "emit"
  /\ outIdx = Len(problems)
  /\ mode = "direct" \/ fileIdx = Len(argv.files)
  /\ exitCode' = IF mode = "main" THEN (IF flag THEN 1 ELSE 0) ELSE exitCode
  /\ pc' = "done"
  /\ UNCHANGED <<mode, argv, enabled, fileIdx, filesRead, fileVars, printed, flag, exc>>

Next ==
  \/ Main
  \/ Direct
  \/ OpenFile
  \/ PrepareRules
  \/ ScanToken
  \/ Parse
  \/ WalkNode
  \/ Sort
  \/ Emit
  \/ NextFile
  \/ Exit

Spec == Init /\ [][Next]_vars

-----------------------------------------------------------------------------
(* One rule applied to one tree, as the tests do: RuleTestBase.check calls      *)
(* get_problems(tree, [rule], {}) and the test lists what it yields.            *)

MaxParams == 2      \* declared positional-or-keyword parameters
MaxCallArgs == 2    \* positional arguments of the recursive call
MaxCallDepth == 2   \* call levels around a decorator's name
MaxOps == 2         \* operators of a chained comparison
MaxAliases == 2     \* entries of an import statement

ArgNames == <<"a", "b", "c", "d", "e", "g", "h", "i">>
ArgList(l, from, n) == [i \in 1..n |-> Arg(l, 6 + 3 * (from + i - 1), <<ArgNames[from + i]>>)]
NumList(l, c, n) == [i \in 1..n |-> Num(l, c + 3 * i)]

\* def f(<parameters>):
\*   return <callee>(<arguments>)
RecTree(npos, nargs, vararg, nkwonly, kwarg, callee, cargs, ckw) ==
  Module(<<FunctionDef("FunctionDef", 1, 0, <<"f">>,
    Arguments(ArgList(1, 0, npos), ArgList(1, npos, nargs),
              IF vararg THEN <<Arg(1, 30, <<"args">>)>> ELSE <<>>,
              ArgList(1, npos + nargs, nkwonly),
              IF kwarg THEN <<Arg(1, 40, <<"kwargs">>)>> ELSE <<>>),
    <<Return(2, 2, <<Call(2, 9, Name(2, 9, <<callee>>), NumList(2, 8, cargs),
                          [i \in 1..ckw |-> Keyword(2, 20, Num(2, 22))])>>)>>,
    <<>>)>>)

RecTrees ==
  {RecTree(npos, nargs, vararg, nkwonly, kwarg, callee, cargs, ckw) :
     npos \in 0..1, nargs \in 0..MaxParams, vararg \in BOOLEAN, nkwonly \in 0..1,
     kwarg \in BOOLEAN, callee \in {"f", "other"}, cargs \in 0..MaxCallArgs, ckw \in 0..1}

\* def f(<parameters>):
\*   def g():
\*     return <callee>(<arguments>)
NestedRecTrees ==
  {Module(<<FunctionDef("FunctionDef", 1, 0, <<"f">>,
      Arguments(<<>>, ArgList(1, 0, nargs), <<>>, <<>>, <<>>),
      <<FunctionDef("FunctionDef", 2, 2, <<"g">>,
          Arguments(<<>>, <<>>, <<>>, <<>>, <<>>),
          <<Return(3, 4, <<Call(3, 11, Name(3, 11, <<callee>>), NumList(3, 10, cargs), <<>>)>>)>>,
          <<>>)>>,
      <<>>)>>) :
     nargs \in 0..MaxParams, callee \in {"f", "g"}, cargs \in 0..MaxCallArgs}

\* a decorator: a name, an attribute or a subscript, inside depth call levels
RECURSIVE Deco(_, _, _)
Deco(base, depth, l) ==
  IF depth > 0 THEN Call(l, 1, Deco(base, depth - 1, l), <<>>, <<>>)
  ELSE CASE base = "fixture" -> Name(l, 1, <<"fixture">>)
         [] base = "wraps" -> Name(l, 1, <<"wraps">>)
         [] base = "attr" -> Attribute(l, 1, Name(l, 1, <<"pytest">>), <<"fixture">>)
         [] base = "sub" -> Subscript(l, 1, Name(l, 1, <<"registry">>), Num(l, 10))

DecoBases == {"fixture", "wraps", "attr", "sub"}

\* decorator lists, as <<base, depth>> pairs
DecoLists ==
  {<<>>} \cup {<<<<b, d>>>> : b \in DecoBases, d \in 0..MaxCallDepth}
         \cup {<<<<"fixture", 0>>, <<"sub", 0>>>>, <<<<"sub", 0>>, <<"fixture", 0>>>>,
               <<<<"wraps", 1>>, <<"fixture", MaxCallDepth>>>>}

YieldExpr(ykind, l, c) ==
  IF ykind = "Yield" THEN Yield(l, c, <<Num(l, c + 6)>>)
  ELSE YieldFrom(l, c, Name(l, c + 11, <<"xs">>))

\* what follows the yield in the function: nothing, 'return', 'return []', or an
\* inner function that returns a value
AfterYield(ret, l) ==
  CASE ret = "none" -> <<>>
    [] ret = "bare" -> <<Return(l, 2, <<>>)>>
    [] ret = "value" -> <<Return(l, 2, <<Num(l, 9)>>)>>
    [] ret = "inner" -> <<FunctionDef("FunctionDef", l, 2, <<"h">>,
                            Arguments(<<>>, <<>>, <<>>, <<>>, <<>>),
                            <<Return(l + 1, 4, <<Num(l + 1, 11)>>)>>, <<>>)>>

RetKinds == {"none", "bare", "value", "inner"}

\* @<decorators>
\* def generator():
\*   if True:
\*     <yield>
\*   <after>
YieldTree(fkind, decos, ykind, ret) ==
  LET n == Len(decos) IN
  Module(<<FunctionDef(fkind, n + 1, 0, <<"generator">>,
    Arguments(<<>>, <<>>, <<>>, <<>>, <<>>),
    <<If(n + 2, 2, Name(n + 2, 5, <<"True">>), <<Expr(n + 3, 4, YieldExpr(ykind, n + 3, 4))>>)>>
      \o AfterYield(ret, n + 4),
    [i \in 1..n |-> Deco(decos[i][1], decos[i][2], i)])>>)

\* a yield outside any function: at module level, in a class body, in a lambda
LooseYieldTrees ==
  {Module(<<Expr(1, 0, YieldExpr("Yield", 1, 0))>>),
   Module(<<ClassDef(1, 0, <<"K">>, <<>>, <<Expr(2, 2, YieldExpr("YieldFrom", 2, 2))>>)>>),
   Module(<<Assign(1, 0, Name(1, 0, <<"x">>),
              Lambda(1, 4, Arguments(<<>>, <<>>, <<>>, <<>>, <<>>), YieldExpr("Yield", 1, 13)))>>)}

YieldTrees ==
  {YieldTree(fkind, decos, ykind, ret) :
     fkind \in {"FunctionDef", "AsyncFunctionDef"}, decos \in DecoLists,
     ykind \in {"Yield", "YieldFrom"}, ret \in RetKinds}
  \cup LooseYieldTrees

\* the operands of a comparison
Operand(kind, l, c) ==
  LET gen == Comprehension(Name(l, c + 7, <<"x">>), Name(l, c + 12, <<"xs">>)) IN
  CASE kind = "name" -> Name(l, c, <<"other">>)
    [] kind = "setcomp" -> Comp("SetComp", l, c, Name(l, c + 1, <<"x">>), gen)
    [] kind = "setgen" ->     \* set(x for x in xs)
         Call(l, c, Name(l, c, <<"set">>),
              <<Comp("GeneratorExp", l, c + 4, Name(l, c + 4, <<"x">>), gen)>>, <<>>)
    [] kind = "setname" ->    \* set(xs)
         Call(l, c, Name(l, c, <<"set">>), <<Name(l, c + 4, <<"xs">>)>>, <<>>)

OperandKinds == {"name", "setcomp", "setgen", "setname"}
CompareOps == {"LtE", "GtE", "Lt"}

CompareTree(ops, operands) ==
  Module(<<Expr(1, 0, Compare(1, 0, Operand(operands[1], 1, 0), ops,
     [i \in 1..Len(ops) |-> Operand(operands[i + 1], 1, 30 * i)]))>>)

CompareTrees ==
  UNION {{CompareTree(ops, operands) : ops \in [1..n -> CompareOps],
                                       operands \in [1..(n + 1) -> OperandKinds]}
           : n \in 1..MaxOps}

\* the operands of a binary operation
BinOperand(kind, l, c) ==
  CASE kind = "str" -> Str(l, c)
    [] kind = "fstr" -> JoinedStr(l, c)
    [] kind = "num" -> Num(l, c)
    [] kind = "name" -> Name(l, c, <<"s">>)

BinOperandKinds == {"str", "fstr", "num", "name"}
BinOps == {"Add", "Mod", "Mult"}

BinOpTrees ==
  {Module(<<Expr(1, 0, BinOp(1, 0, BinOperand(lk, 1, 0), op, BinOperand(rk, 1, 8)))>>) :
     lk \in BinOperandKinds, op \in BinOps, rk \in BinOperandKinds}

\* the entries of an import statement: <<name, asname>>, asname <<>> when there is
\* no 'as'. A name is the sequence of the pieces the rules take it apart into.
ImportAliases ==
  {<<<<"Test", "Suite">>, <<>>>>,                              \* TestSuite
   <<<<"Test", "Suite">>, <<"Base">>>>,                        \* TestSuite as Base
   <<<<"helper">>, <<"Test", "Helper">>>>,                     \* helper as TestHelper
   <<<<"helper">>, <<>>>>,                                     \* helper
   <<<<"libsigopt", ".", "compute">>, <<>>>>,                  \* libsigopt.compute
   <<<<"libsigopt", ".", "compute", ".", "x">>, <<>>>>,        \* libsigopt.compute.x
   <<<<"libsigopt", ".", "compute", "_utils">>, <<>>>>,        \* libsigopt.compute_utils
   <<<<"libsigopt", ".", "aux">>, <<>>>>}                      \* libsigopt.aux

FromAliases ==
  {<<<<"Test", "Suite">>, <<"Base">>>>,                        \* TestSuite as Base
   <<<<"test_", "function">>, <<>>>>,                          \* test_function
   <<<<"not_", "test_", "function">>, <<>>>>,                  \* not_test_function
   <<<<"helper">>, <<"test_", "helper">>>>}                    \* helper as test_helper

\* the module of an import-from: <<path, hasmodule>>
FromModules ==
  {<<<<>>, FALSE>>,                                            \* from . import
   <<<<"m">>, TRUE>>,
   <<<<"libsigopt">>, TRUE>>,
   <<<<"libsigopt", ".", "compute">>, TRUE>>,
   <<<<"libsigopt", ".", "compute", ".", "x">>, TRUE>>,
   <<<<"libsigopt", ".", "compute", "_utils">>, TRUE>>,
   <<<<"libsigopt", ".", "views">>, TRUE>>}

AliasLists(choices) == UNION {[1..n -> choices] : n \in 1..MaxAliases}
AliasNodes(l, as) == [i \in DOMAIN as |-> Alias(l, 10 * i, as[i][1], as[i][2])]

\* one import statement, followed by a second statement
ImportTrees ==
  {Module(<<Import(1, 0, AliasNodes(1, as)), Pass(2, 0)>>) : as \in AliasLists(ImportAliases)}
  \cup {Module(<<ImportFrom(1, 0, m[1], m[2], AliasNodes(1, as)), Pass(2, 0)>>) :
          m \in FromModules, as \in AliasLists(FromAliases)}

\* the (tree, rule) pairs checked
RuleCases ==
  ((RecTrees \cup NestedRecTrees) \X {"SafeRecursiveRule"})
  \cup (YieldTrees \X {"SafeYieldRule"})
  \cup (CompareTrees \X {"SetComparisonRule"})
  \cup (BinOpTrees \X {"AddingStringsRule", "SafeIteratorRule"})
  \cup (ImportTrees \X {"ForbidImportTestSuiteRule", "NoImportLibsigoptComputeRule"})

InitRules ==
  /\ pc = "walk"
  /\ mode = "rule"
  /\ argv = [include |-> <<>>, ignore |-> <<>>, files |-> <<>>]
  /\ \E c \in RuleCases :
       /\ source = [name |-> "test.py", tokens |-> <<>>, tree |-> c[1]]
       /\ rules = <<c[2]>>
       /\ enabled = {c[2]}
  /\ fileIdx = 0
  /\ filesRead = <<>>
  /\ disables = EmptyMap
  /\ tkIdx = 0
  /\ todo = <<<<>>>>
  /\ parent = [k \in {<<>>} |-> NoneP]
  /\ found = <<>>
  /\ applied = <<>>
  /\ problems = <<>>
  /\ outIdx = 0
  /\ printed = <<>>
  /\ flag = FALSE
  /\ exc = "None"
  /\ exitCode = -1

\* list(get_problems(...)) has taken the last problem
RuleDone ==
  /\ pc = "walk"
  /\ todo = <<>>
  /\ mode = "rule"
  /\ pc' = "done"
  /\ UNCHANGED <<mode, argv, enabled, fileIdx, filesRead, fileVars, printed, flag, exc, exitCode>>

NextRules ==
  \/ WalkNode
  \/ RuleDone

SpecRules == InitRules /\ [][NextRules]_vars

-----------------------------------------------------------------------------
(* Properties of check_file and main (specification Spec) *)

\* all the paths of the nodes of a tree
RECURSIVE PathsFrom(_, _)
PathsFrom(n, p) ==
  {p} \cup UNION {PathsFrom(n.kids[i], Append(p, i)) : i \in DOMAIN n.kids}
Paths == PathsFrom(Tree, <<>>)

\* get_problems has started on the file in source
Walking == pc \in {"walk", "emit", "done"}
\* get_problems has visited every node
Walked == pc \in {"emit", "done"} \/ (pc = "walk" /\ todo = <<>>)

PosOf(x) == <<At(x.node).line, At(x.node).col>>
DiscoveryIndex(x) == CHOOSE k \in DOMAIN found : found[k] = x

\* the lines check_file has yielded for the file in source
Emitted == SubSeq(printed, Len(printed) - outIdx + 1, Len(printed))

\* C1: the diagnostics check_file emits for a file are the diagnostics the walker
\* discovered, each once, non-decreasing in (line, column), those with equal
\* (line, column) in their discovery order.
C1_EmittedIsStableSort ==
  pc \in {"emit", "done"} =>
    /\ Len(problems) = Len(found)
    /\ Range(problems) = Range(found)
    /\ \A i, j \in DOMAIN problems : i < j =>
         LET a == PosOf(problems[i])
             b == PosOf(problems[j])
         IN /\ a[1] < b[1] \/ (a[1] = b[1] /\ a[2] <= b[2])
            /\ a = b => DiscoveryIndex(problems[i]) < DiscoveryIndex(problems[j])
    /\ Emitted = [i \in 1..outIdx |->
                    <<source.name, PosOf(problems[i])[1], PosOf(problems[i])[2], problems[i].msg>>]

\* a file whose diagnostics were discovered out of order, two of them at the same
\* position and two on one line with the later column first, all emitted
C1_Witness ==
  /\ pc = "done"
  /\ outIdx = Len(problems)
  /\ \E i, j \in DOMAIN found : i < j /\ PosOf(found[i])[1] > PosOf(found[j])[1]
  /\ \E i, j \in DOMAIN found : i < j /\ PosOf(found[i])[1] = PosOf(found[j])[1]
                                      /\ PosOf(found[i])[2] > PosOf(found[j])[2]
  /\ \E i, j \in DOMAIN found : i < j /\ PosOf(found[i]) = PosOf(found[j])

\* the nodes on which a rule has a finding: check_node returns a message
Finding(rule, p) ==
  LET r == check_node(rule, p) IN r.exc = "None" /\ r.val # None

\* C2: when the suppression map records line L for a rule, get_problems yields no
\* diagnostic of that rule for a node whose line is >= L, and once it has visited
\* every node it has yielded every finding of that rule on a node whose line is < L.
C2_SuppressedFromLine ==
  Walking =>
    \A i \in DOMAIN rules :
      Key(rules[i]) \in DOMAIN disables =>
        LET L == disables[Key(rules[i])] IN
        /\ \A k \in DOMAIN found :
             found[k].rule = rules[i] => At(found[k].node).line < L
        /\ Walked =>
             \A p \in Paths :
               (At(p).line > 0 /\ At(p).line < L /\ Finding(rules[i], p)) =>
                 \E k \in DOMAIN found : found[k].node = p /\ found[k].rule = rules[i]

\* a rule suppressed from line 2 with a finding kept on line 1 and one dropped on line 2
C2_Witness ==
  /\ Walked
  /\ \E i \in DOMAIN rules :
       /\ Key(rules[i]) \in DOMAIN disables
       /\ disables[Key(rules[i])] = 2
       /\ \E k \in DOMAIN found : found[k].rule = rules[i] /\ At(found[k].node).line = 1
       /\ \E p \in Paths : At(p).line = 2 /\ Finding(rules[i], p)

\* the comments among the first n tokens that name a rule after the disable marker
DirectivesNaming(name, n) ==
  {j \in 1..n :
     /\ source.tokens[j].type = "COMMENT"
     /\ Contains(source.tokens[j].string, DisableMarker)
     /\ \E i \in DOMAIN RuleNamesOf(source.tokens[j].string) :
          RuleNamesOf(source.tokens[j].string)[i] = name}

NamesIn(n) ==
  UNION {Range(RuleNamesOf(source.tokens[j].string)) :
           j \in {k \in 1..n : /\ source.tokens[k].type = "COMMENT"
                               /\ Contains(source.tokens[k].string, DisableMarker)}}

\* C3: at every point of the scan, and after it, the suppression map holds for each
\* rule named so far the line of the first disable comment that names it; a later
\* directive naming the rule changes nothing.
C3_FirstDirectiveWins ==
  (pc = "scan" \/ Walking) =>
    LET n == tkIdx - 1 IN
    /\ DOMAIN disables = NamesIn(n)
    /\ \A name \in DOMAIN disables :
         LET first == CHOOSE j \in DirectivesNaming(name, n) :
                        \A k \in DirectivesNaming(name, n) : j <= k
         IN disables[name] = source.tokens[first].line

\* two comments on different lines name the same rule, and the scan is over
C3_Witness ==
  /\ Walking
  /\ \E name \in DOMAIN disables :
       \E j, k \in DirectivesNaming(name, Len(source.tokens)) :
         /\ source.tokens[j].line < source.tokens[k].line
         /\ disables[name] = source.tokens[j].line

HasEnable(types) ==
  \E j \in DOMAIN source.tokens :
    source.tokens[j].type \in types /\ Contains(source.tokens[j].string, EnableMarker)

LinesOf(name) == {i \in DOMAIN printed : printed[i][1] = name}

\* C4 as claimed: a file with the enable marker in any token, a string literal as
\* much as a comment, is never walked and gets no diagnostic.
C4_EnableAnywhereFatal ==
  (pc \notin {"init", "open"} /\ HasEnable({"COMMENT", "STRING", "NAME"})) =>
    ~Walking /\ LinesOf(source.name) = {}

\* C4 amended: a file with the enable marker in a comment is never walked and gets
\* no diagnostic: check_file fails on that comment (or earlier, on the rule names);
\* and check_file fails this way only on a comment that holds the marker.
C4_EnableInCommentFatal ==
  /\ (pc \notin {"init", "open"} /\ HasEnable({"COMMENT"})) =>
       /\ ~Walking
       /\ LinesOf(source.name) = {}
       /\ pc = "raised" => exc \in {"NotImplementedError", "KeyError"}
  /\ exc = "NotImplementedError" =>
       /\ pc = "raised"
       /\ source.tokens[tkIdx].type = "COMMENT"
       /\ Contains(source.tokens[tkIdx].string, EnableMarker)

\* check_file has failed on an enable comment that follows other tokens
C4_Witness ==
  /\ pc = "raised"
  /\ exc = "NotImplementedError"
  /\ tkIdx > 1
  /\ disables # EmptyMap

\* C5 as claimed: with a name outside the registry in the enabled set, no file is
\* read and nothing is emitted, through main and through check_file alike.
C5_UnknownRuleBeforeAnyRead ==
  (pc # "init" /\ ~(enabled \subseteq REGISTERED_RULES)) =>
    filesRead = <<>> /\ printed = <<>>

\* C5 amended: with a name outside the registry in the enabled set nothing is
\* emitted; main fails on its assertion before any file is read; check_file called
\* directly fails in prepare_rules (KeyError) after reading the file and before
\* any token is scanned.
C5_UnknownRuleFails ==
  (pc # "init" /\ ~(enabled \subseteq REGISTERED_RULES)) =>
    /\ printed = <<>>
    /\ tkIdx = 0
    /\ mode = "main" => pc = "raised" /\ exc = "AssertionError" /\ filesRead = <<>>
    /\ mode = "direct" =>
         /\ pc \in {"open", "prepare", "raised"}
         /\ pc = "raised" => exc = "KeyError" /\ Len(filesRead) = 1

\* main has failed on a name given with --include
C5_Witness ==
  /\ mode = "main"
  /\ pc = "raised"
  /\ "NoSuchRule" \in enabled

-----------------------------------------------------------------------------
(* Properties of the rules (specification SpecRules) *)

Prefixes(p) == {SubSeq(p, 1, k) : k \in 0..Len(p)}
FunctionsAbove(p) == {q \in Prefixes(p) : IsFunction(At(q))}
\* the nearest function definition around a node that has one
Enclosing(p) == CHOOSE q \in FunctionsAbove(p) : \A r \in FunctionsAbove(p) : Len(r) <= Len(q)

Visited(p) == \E i \in DOMAIN applied : applied[i].node = p
FoundAt(rule, p) == {k \in DOMAIN found : found[k].node = p /\ found[k].rule = rule}

\* a call by bare name of the function it is written in
SelfRecursiveCall(p) ==
  /\ At(p).kind = "Call"
  /\ At(p).kids[1].kind = "Name"
  /\ FunctionsAbove(p) # {}
  /\ At(Enclosing(p)).id = At(p).kids[1].id

\* the function declares *args, **kwargs or a keyword-only parameter
DeclaresUnsupported(fn) ==
  LET args == fn.kids[1] IN args.vararg \/ args.kwarg \/ args.nkwonly > 0

\* C6 as claimed: SafeRecursive applied to a self-recursive call of a function that
\* declares *args, **kwargs or a keyword-only parameter gives no finding and does
\* not raise.
C6_VariadicSkippedSilently ==
  \A i \in DOMAIN applied :
    LET p == applied[i].node IN
    (/\ applied[i].rule = "SafeRecursiveRule"
     /\ SelfRecursiveCall(p)
     /\ DeclaresUnsupported(At(Enclosing(p))))
    => exc = "None" /\ FoundAt("SafeRecursiveRule", p) = {}

MixedMessage == <<"Do not mix 'return value' and 'yield' in the same function">>
MissingMessage == <<"Functions with 'yield' should be decorated with a 'generator_to_X' function">>

ContainsReturnValue(fnPath) ==
  \E q \in PathsFrom(At(fnPath), fnPath) : At(q).kind = "Return" /\ At(q).kids # <<>>

\* a decorator without its call levels, and how many they are
RECURSIVE Unwrapped(_)
Unwrapped(d) == IF d.kind = "Call" THEN Unwrapped(d.kids[1]) ELSE d
RECURSIVE CallLevels(_)
CallLevels(d) == IF d.kind = "Call" THEN 1 + CallLevels(d.kids[1]) ELSE 0

Decorators(fn) == {fn.kids[i] : i \in (2 + fn.a)..(1 + fn.a + fn.b)}
NamesSafe(d) ==
  Unwrapped(d).kind \in {"Name", "Attribute"} /\ Unwrapped(d).id \in SafeDecorators

IsYield(p) == At(p).kind \in {"Yield", "YieldFrom"}

\* C7: SafeYield gives at most one diagnostic per yield site, and for a yield in a
\* function that contains 'return <value>' and has no safety decorator that one
\* diagnostic is the mixed return/yield message, not the missing-decorator message.
C7_OneDiagnosticMixedFirst ==
  \A p \in Paths : IsYield(p) =>
    /\ Cardinality(FoundAt("SafeYieldRule", p)) <= 1
    /\ (/\ Visited(p) /\ "SafeYieldRule" \in Range(rules)
        /\ FunctionsAbove(p) # {}
        /\ ContainsReturnValue(Enclosing(p))
        /\ \A d \in Decorators(At(Enclosing(p))) : ~NamesSafe(d))
       => /\ exc = "None"
          /\ \E k \in FoundAt("SafeYieldRule", p) : found[k].msg = MixedMessage
          /\ \A k \in DOMAIN found : found[k].node = p => found[k].msg # MissingMessage

\* an undecorated generator with 'return <value>', walked to the end
C7_Witness ==
  /\ pc = "done"
  /\ \E p \in Paths :
       /\ IsYield(p) /\ FunctionsAbove(p) # {}
       /\ At(Enclosing(p)).b = 0
       /\ ContainsReturnValue(Enclosing(p))
       /\ \E k \in FoundAt("SafeYieldRule", p) : found[k].msg = MixedMessage

\* a yield in a function without 'return <value>' whose decorators are all names
\* or attributes, under any number of call levels
PlainlyDecoratedYield(p) ==
  /\ IsYield(p) /\ FunctionsAbove(p) # {}
  /\ ~ContainsReturnValue(Enclosing(p))
  /\ \A d \in Decorators(At(Enclosing(p))) : Unwrapped(d).kind \in {"Name", "Attribute"}

ComprehendedSet(n) ==
  \/ n.kind = "SetComp"
  \/ /\ n.kind = "Call" /\ n.kids[1].kind = "Name" /\ n.kids[1].id = <<"set">>
     /\ \E i \in 2..(1 + n.a) : n.kids[i].kind \in {"GeneratorExp", "ListComp"}

\* the operator positions of a comparison that offend
Offending(n) ==
  {i \in DOMAIN n.ops :
     n.ops[i] \in {"LtE", "GtE"} /\ (ComprehendedSet(n.kids[i]) \/ ComprehendedSet(n.kids[i + 1]))}

\* C9 as claimed: a comparison with k offending operator positions gives k diagnostics.
C9_OncePerPosition ==
  (Walked /\ exc = "None" /\ "SetComparisonRule" \in Range(rules)) =>
    \A p \in Paths : At(p).kind = "Compare" =>
      Cardinality(FoundAt("SetComparisonRule", p)) = Cardinality(Offending(At(p)))

\* C9 amended: a comparison gives one diagnostic when it has at least one offending
\* operator position, however many, and none when it has no such position.
C9_OncePerComparison ==
  (Walked /\ exc = "None" /\ "SetComparisonRule" \in Range(rules)) =>
    \A p \in Paths : At(p).kind = "Compare" =>
      Cardinality(FoundAt("SetComparisonRule", p)) = (IF Offending(At(p)) = {} THEN 0 ELSE 1)

\* a chained comparison with two offending positions and its one diagnostic
C9_Witness ==
  /\ pc = "done"
  /\ \E p \in Paths :
       /\ At(p).kind = "Compare"
       /\ Cardinality(Offending(At(p))) = 2
       /\ Cardinality(FoundAt("SetComparisonRule", p)) = 1

StringLiteralLike(n) ==
  (n.kind = "Constant" /\ n.id = <<"str">>) \/ n.kind \in {"JoinedStr", "FormattedValue"}

\* C10 as claimed: AddingStrings has a finding on a node exactly when the node is a
\* binary + whose two operands are string-literal-like.
C10_OnlyAddition ==
  (Walked /\ exc = "None" /\ "AddingStringsRule" \in Range(rules)) =>
    \A p \in Paths :
      (FoundAt("AddingStringsRule", p) # {})
        <=> (/\ At(p).kind = "BinOp"
             /\ At(p).ops = <<"Add">>
             /\ StringLiteralLike(At(p).kids[1])
             /\ StringLiteralLike(At(p).kids[2]))

-----------------------------------------------------------------------------
(* Properties of the import rules (specification SpecRules) *)

TestLike(name) == StartsWith(name, <<"Test">>) \/ StartsWith(name, <<"test_">>)
IsImport(p) == At(p).kind \in {"Import", "ImportFrom"}
Entries(p) == Range(At(p).kids)
\* the name an entry binds in the importing module
BoundName(entry) == IF entry.asname = <<>> THEN entry.id ELSE entry.asname

RanRule(rule) == Walked /\ exc = "None" /\ rules = <<rule>>

\* C11 as claimed: ForbidImportTestSuite has a finding on an import statement
\* exactly when some entry has an imported name or an alias starting with Test or
\* test_.
C11_NameOrAlias ==
  RanRule("ForbidImportTestSuiteRule") =>
    \A p \in {q \in Paths : IsImport(q)} :
      (FoundAt("ForbidImportTestSuiteRule", p) # {})
        <=> \E e \in Entries(p) : TestLike(e.id) \/ TestLike(e.asname)

\* C11, amended: ForbidImportTestSuite has one finding on an import statement when
\* some entry binds a name (its alias when it has one, else its imported name)
\* starting with Test or test_, the finding names the first such bound name, and
\* there is no finding otherwise.
C11_BoundName ==
  RanRule("ForbidImportTestSuiteRule") =>
    \A p \in {q \in Paths : IsImport(q)} :
      LET hits == {i \in DOMAIN At(p).kids : TestLike(BoundName(At(p).kids[i]))}
          fs == FoundAt("ForbidImportTestSuiteRule", p)
      IN IF hits = {} THEN fs = {}
         ELSE LET first == CHOOSE i \in hits : \A j \in hits : i <= j IN
              /\ Cardinality(fs) = 1
              /\ \A k \in fs :
                   StartsWith(found[k].msg,
                              <<"Importing the test suite ">> \o BoundName(At(p).kids[first]))

\* an import with an offending name under a harmless alias and a harmless name
\* under an offending alias, reported for the second
C11_Witness ==
  /\ RanRule("ForbidImportTestSuiteRule")
  /\ \E p \in Paths :
       /\ IsImport(p)
       /\ Len(At(p).kids) = 2
       /\ TestLike(At(p).kids[1].id) /\ ~TestLike(BoundName(At(p).kids[1]))
       /\ ~TestLike(At(p).kids[2].id) /\ TestLike(At(p).kids[2].asname)
       /\ Cardinality(FoundAt("ForbidImportTestSuiteRule", p)) = 1

\* a dotted path that is the forbidden package or lies under it
ForbiddenPackage == <<"libsigopt", ".", "compute">>
IsOrUnder(path) == path = ForbiddenPackage \/ StartsWith(path, ForbiddenPackage \o <<".">>)
\* the module paths an import statement imports
ImportedModules(n) ==
  IF n.kind = "Import" THEN {n.kids[i].id : i \in DOMAIN n.kids}
  ELSE IF n.hasmodule THEN {n.id} ELSE {}

\* C12 as claimed: NoImportLibsigoptCompute has a finding on an import or
\* import-from statement exactly when an imported module path is libsigopt.compute
\* or a package under it, for both statement forms alike.
C12_PackagePrefixBothForms ==
  rules = <<"NoImportLibsigoptComputeRule">> =>
    \A p \in {q \in Paths : IsImport(q) /\ Visited(q)} :
      (FoundAt("NoImportLibsigoptComputeRule", p) # {})
        <=> \E m \in ImportedModules(At(p)) : IsOrUnder(m)

\* C15 as claimed: NoImportLibsigoptCompute applied to an import-from that has no
\* module path (from . import x) does not raise and returns no finding, and the
\* walk goes on to visit every remaining node.
C15_RelativeImportDeclined ==
  rules = <<"NoImportLibsigoptComputeRule">> =>
    \A p \in {q \in Paths : At(q).kind = "ImportFrom" /\ ~At(q).hasmodule /\ Visited(q)} :
      /\ exc = "None"
      /\ FoundAt("NoImportLibsigoptComputeRule", p) = {}
      /\ pc # "walk" => \A q \in Paths : Visited(q)

-----------------------------------------------------------------------------
(* Properties of main (specification Spec) *)

\* check_file has yielded its last line for the file in source
FileFinished == pc = "emit" /\ outIdx = Len(problems)

-----------------------------------------------------------------------------
(* Further properties of the rules (specification SpecRules) *)

\* the parameters a function declares, positional-only ones included
DeclaredParameters(fn) ==
  LET args == fn.kids[1] IN args.nposonly + args.a + args.nkwonly

\* C14 as claimed: for a self-recursive call in a function without *args, **kwargs
\* and keyword-only parameters, SafeRecursive has a finding exactly when the number
\* of positional plus keyword arguments differs from the number of declared
\* parameters, positional-only ones included.
C14_CountsEveryParameter ==
  \A i \in DOMAIN applied :
    LET p == applied[i].node IN
    (/\ applied[i].rule = "SafeRecursiveRule"
     /\ SelfRecursiveCall(p)
     /\ ~DeclaresUnsupported(At(Enclosing(p))))
    => ((FoundAt("SafeRecursiveRule", p) # {})
          <=> DeclaredParameters(At(Enclosing(p))) # At(p).a + At(p).b)

\* the calls of a rule's check_node on a node
Applications(rule, p) == {i \in DOMAIN applied : applied[i] = [node |-> p, rule |-> rule]}

\* C16 as claimed: with an empty suppression map, when get_problems has ended it
\* has applied every active rule to every node of the tree exactly once, and it has
\* yielded one diagnostic for each (node, rule) pair whose check returns a message
\* and none for any other pair.
C16_EveryRuleEveryNodeOnce ==
  (mode = "rule" /\ disables = EmptyMap /\ pc \in {"done", "raised"}) =>
    \A p \in Paths : \A r \in Range(rules) :
      /\ Cardinality(Applications(r, p)) = 1
      /\ Cardinality(FoundAt(r, p)) = (IF Finding(r, p) THEN 1 ELSE 0)

\* C17: whenever get_problems is about to apply the rules to a node, the node and
\* each of its ancestors carry their parent link (the root's being None), and
\* find_parent_function of the node is its nearest enclosing function definition,
\* the node itself included, or None when there is none.
C17_AncestorsLinked ==
  (pc = "walk" /\ todo # <<>>) =>
    LET p == Head(todo) IN
    /\ \A q \in Prefixes(p) :
         /\ q \in DOMAIN parent
         /\ parent[q] = (IF q = <<>> THEN NoneP ELSE SubSeq(q, 1, Len(q) - 1))
    /\ find_parent_function(p) =
         (IF FunctionsAbove(p) = {} THEN Ret(NoneP) ELSE Ret(Enclosing(p)))

\* the rules are about to be applied to a call that lies in a function nested in
\* another one
C17_Witness ==
  /\ pc = "walk" /\ todo # <<>>
  /\ At(Head(todo)).kind = "Call"
  /\ Cardinality(FunctionsAbove(Head(todo))) = 2
  /\ find_parent_function(Head(todo)) = Ret(Enclosing(Head(todo)))
  /\ \E i \in DOMAIN applied : applied[i].node = Enclosing(Head(todo))

\* C18 as claimed: SafeYield applied to a yield or yield-from that has no enclosing
\* function definition (at module or class level, or in a lambda outside any
\* function) returns a message or no finding and does not raise.
C18_LooseYieldDoesNotRaise ==
  \A i \in DOMAIN applied :
    LET p == applied[i].node IN
    (/\ applied[i].rule = "SafeYieldRule"
     /\ IsYield(p)
     /\ FunctionsAbove(p) = {})
    => exc = "None"

-----------------------------------------------------------------------------
(* Rule selection in main (specification Spec) *)

\* C19 as claimed: when --include and --ignore name only registered rules, each
\* possibly left out, the enabled set main computes is (defaults plus included)
\* minus ignored, it lies within the registry, and the registry check passes.
C19_SelectionSucceeds ==
  (/\ mode = "main"
   /\ Range(argv.include) \subseteq REGISTERED_RULES
   /\ Range(argv.ignore) \subseteq REGISTERED_RULES)
  => /\ enabled = (DefaultRules \cup Range(argv.include)) \ Range(argv.ignore)
     /\ enabled \subseteq REGISTERED_RULES
     /\ exc # "AssertionError"

====
